---- MODULE Spec2Model ----
(***************************************************************************)
(* Model of the evaluation pipeline of company_eval_framework:            *)
(* cli.cmd_ci_run -> runner.run_ci_evaluation -> evaluators.run_evaluations*)
(* -> runner.compute_metrics / print_metric_summary -> axial coding.       *)
(*                                                                         *)
(* Scores are the floats 0.0 and 1.0, modelled as the integers 0 and 1.    *)
(* A mean is kept as the exact fraction num/den (den = 0 is pandas' NaN of *)
(* an empty column); thresholds are kept in hundredths.                    *)
(***************************************************************************)
EXTENDS Integers, Sequences, FiniteSets, TLC

(* ------------------------------ bounds -------------------------------- *)
\* largest number of records the adapter writes / the dataset holds
MaxRows == 2
\* largest number of records of a score table given to compute_metrics directly
MaxScoreRows == 5
\* largest number of records of a table whose failures are classified directly
MaxFailRows == 4
\* largest num_examples of a synthetic dataset config (besides the default)
MaxExamples == 3
\* largest number of lines of a generator response
MaxLines == 3

(* ----------------------------- constants ------------------------------ *)
\* thresholds are written in hundredths: 20 is max_mean / min_mean = 0.20
Scale == 100
\* Optional[float] = None
NoBound == -1
ThresholdValues == {20, 50}

(* --------------------------- small helpers ---------------------------- *)
Range(s) == {s[i] : i \in 1..Len(s)}

RECURSIVE SumSeq(_)
SumSeq(s) == IF s = <<>> THEN 0 ELSE Head(s) + SumSeq(Tail(s))

(* -------------------------- records and files ------------------------- *)
\* A value of a record is [kind, v]: text ("str"), an integer ("int"), a float
\* ("float", v its integral value) or the float NaN ("nan").
NaN == [kind |-> "nan", v |-> 0]
IsNumber(x) == x.kind \in {"int", "float", "nan"}

\* json.dumps of a value: the token written. A float is written with a decimal
\* point, an integer without, NaN as the bare word NaN
json_dumps(x) ==
    IF x.kind = "str" THEN [tok |-> "string", v |-> x.v]
    ELSE IF x.kind = "int" THEN [tok |-> "digits", v |-> x.v]
    ELSE IF x.kind = "float" THEN [tok |-> "digits.digits", v |-> x.v]
    ELSE [tok |-> "NaN", v |-> 0]

\* json.loads of a token
json_loads(t) ==
    IF t.tok = "string" THEN [kind |-> "str", v |-> t.v]
    ELSE IF t.tok = "digits" THEN [kind |-> "int", v |-> t.v]
    ELSE IF t.tok = "digits.digits" THEN [kind |-> "float", v |-> t.v]
    ELSE NaN

\* a line of a JSONL file is an object: key -> token
DumpRecord(rec) == [c \in DOMAIN rec |-> json_dumps(rec[c])]
LoadRecord(line) == [c \in DOMAIN line |-> json_loads(line[c])]

\* variant: a frame without rows still has the columns of an adapter output
DataFrameColumns_emptyKeepsHeader(rows) ==
    IF rows = <<>> THEN {"conversation_id", "input", "output"}
    ELSE UNION {DOMAIN rows[i] : i \in 1..Len(rows)}

\* columns of a frame built from a list of records: every key of every record
DataFrameColumns(rows) == UNION {DOMAIN rows[i] : i \in 1..Len(rows)}

\* pd.DataFrame(records): every row gets every column; a missing cell is NaN,
\* and a column of numbers with a missing cell or a float is a float column,
\* so its integers become floats
DataFrame(records) ==
    LET cols == DataFrameColumns(records)
        Present(c) == {i \in 1..Len(records) : c \in DOMAIN records[i]}
        FloatColumn(c) ==
            /\ \A i \in Present(c) : IsNumber(records[i][c])
            /\ \/ Present(c) # 1..Len(records)
               \/ \E i \in Present(c) : records[i][c].kind # "int"
        Cell(i, c) ==
            IF c \notin DOMAIN records[i] THEN NaN
            ELSE IF records[i][c].kind = "int" /\ FloatColumn(c)
                 THEN [kind |-> "float", v |-> records[i][c].v]
                 ELSE records[i][c]
    IN  [i \in 1..Len(records) |-> [c \in cols |-> Cell(i, c)]]

\* write_jsonl: one line per row, json.dumps(row.to_dict())
write_jsonl(df) == [i \in 1..Len(df) |-> DumpRecord(df[i])]

\* read_jsonl of a file whose lines all parse
read_jsonl(lines) == DataFrame([i \in 1..Len(lines) |-> LoadRecord(lines[i])])

(* ------------------------- evaluator registry ------------------------- *)
\* EvaluatorSpec: name, the rails (label set) and the positive label
planning_quality ==
    [name |-> "planning_quality", rails |-> {"good_plan", "bad_plan"},
     positive_label |-> "good_plan"]
tool_use_appropriateness ==
    [name |-> "tool_use_appropriateness", rails |-> {"appropriate", "inappropriate"},
     positive_label |-> "appropriate"]
brand_voice ==
    [name |-> "brand_voice", rails |-> {"on_brand", "off_brand"},
     positive_label |-> "on_brand"]

build_agent_suite == <<planning_quality, tool_use_appropriateness>>

\* the suite names the configurations of the model use: a known suite, the
\* empty string (no base suite) and a name build_eval_suite does not know
SuiteNames == {"agent", "", "nonexistent"}
KnownSuites == {"agent"}

\* build_eval_suite: [ok, value]; ok = FALSE is the ValueError
build_eval_suite(eval_suite_name) ==
    IF eval_suite_name \notin KnownSuites
    THEN [ok |-> FALSE, value |-> <<>>]
    ELSE [ok |-> TRUE, value |-> build_agent_suite]

\* custom evaluator references of a config: one that resolves, one whose
\* module cannot be imported and one whose module lacks the class
CustomRefs == {"my_evaluators.BrandVoiceEvaluator", "missing_module.Nothing",
               "my_evaluators.Nothing"}

\* the exception importlib.import_module / getattr raise for a reference
ImportFailure(ref) ==
    IF ref = "missing_module.Nothing" THEN "ImportError"
    ELSE IF ref = "my_evaluators.Nothing" THEN "AttributeError"
    ELSE ""

\* variant: a reference that cannot be resolved is skipped
RECURSIVE _load_custom_evaluators_skip(_)
_load_custom_evaluators_skip(configs) ==
    IF configs = <<>> THEN [ok |-> TRUE, error |-> "", value |-> <<>>]
    ELSE LET rest == _load_custom_evaluators_skip(Tail(configs))
         IN  IF ImportFailure(Head(configs)) # "" THEN rest
             ELSE [rest EXCEPT !.value = <<brand_voice>> \o @]

\* _load_custom_evaluators: [ok, error, value]; ok = FALSE is the ImportError
\* or AttributeError of the first reference that does not resolve
RECURSIVE _load_custom_evaluators(_)
_load_custom_evaluators(configs) ==
    IF configs = <<>> THEN [ok |-> TRUE, error |-> "", value |-> <<>>]
    ELSE IF ImportFailure(Head(configs)) # ""
         THEN [ok |-> FALSE, error |-> ImportFailure(Head(configs)), value |-> <<>>]
         ELSE LET rest == _load_custom_evaluators(Tail(configs))
              IN  [ok |-> rest.ok, error |-> rest.error,
                   value |-> IF rest.ok THEN <<brand_voice>> \o rest.value ELSE <<>>]

AllEvaluators == {planning_quality, tool_use_appropriateness, brand_voice}
MetricNames == {e.name : e \in AllEvaluators}

\* the answers of the judge the model draws from: the positive label and one
\* other answer, which is the other rail for the suite evaluators and, for the
\* custom evaluator, the marker llm_classify gives for an answer outside the rails
JudgeLabels(e) ==
    IF e.name = "brand_voice" THEN {e.positive_label, "NOT_PARSABLE"} ELSE e.rails

(* ----------------------------- thresholds ----------------------------- *)
\* ThresholdConfig: validate_at_least_one_bound rejects the entry with no bound
ThresholdConfig ==
    {t \in [max_mean : ThresholdValues \cup {NoBound},
            min_mean : ThresholdValues \cup {NoBound}] :
        ~(t.max_mean = NoBound /\ t.min_mean = NoBound)}

\* the name of a threshold entry that matches no evaluator
UnusedMetric == "no_such_metric"

(* ------------------------------ metrics ------------------------------- *)
\* pandas Series.mean of a column of 0.0/1.0 scores, as an exact fraction
Mean(col) == [num |-> SumSeq(col), den |-> Len(col)]

\* variant: the max bound taken as exclusive
FailureRateLeq_strict(mean, m) ==
    /\ mean.den > 0
    /\ (mean.den - mean.num) * Scale < m * mean.den

\* failure_rate <= max_mean with failure_rate = 1.0 - mean (NaN compares False)
FailureRateLeq(mean, m) ==
    /\ mean.den > 0
    /\ (mean.den - mean.num) * Scale <= m * mean.den

\* variant: the min bound compared with the failure rate instead of the mean
MeanGeq_onFailureRate(mean, m) ==
    /\ mean.den > 0
    /\ (mean.den - mean.num) * Scale >= m * mean.den

\* mean_score >= min_mean (NaN compares False)
MeanGeq(mean, m) ==
    /\ mean.den > 0
    /\ mean.num * Scale >= m * mean.den

\* variant: the min check overwrites the result of the max check
MetricResult_minOverwrites(name, col, thresholds) ==
    LET mean_score == Mean(col)
        has        == name \in DOMAIN thresholds
        maxm       == IF has THEN thresholds[name].max_mean ELSE NoBound
        minm       == IF has THEN thresholds[name].min_mean ELSE NoBound
        passedMax  == IF maxm # NoBound THEN FailureRateLeq(mean_score, maxm) ELSE TRUE
        passed     == IF minm # NoBound THEN MeanGeq(mean_score, minm) ELSE passedMax
    IN  [name |-> name,
         mean |-> mean_score,
         threshold_type |-> IF minm # NoBound THEN "min"
                            ELSE IF maxm # NoBound THEN "max" ELSE "none",
         threshold_value |-> IF minm # NoBound THEN minm ELSE maxm,
         passed |-> passed]

\* variant: a metric without a threshold entry is held to a minimum mean of 0.5
MetricResult_defaultMin(name, col, thresholds) ==
    LET mean_score == Mean(col)
        has        == name \in DOMAIN thresholds
        maxm       == IF has THEN thresholds[name].max_mean ELSE NoBound
        minm       == IF has THEN thresholds[name].min_mean ELSE 50
        passedMax  == IF maxm # NoBound THEN FailureRateLeq(mean_score, maxm) ELSE TRUE
        passed     == IF minm # NoBound
                      THEN passedMax /\ MeanGeq(mean_score, minm)
                      ELSE passedMax
    IN  [name |-> name,
         mean |-> mean_score,
         threshold_type |-> IF minm # NoBound THEN "min"
                            ELSE IF maxm # NoBound THEN "max" ELSE "none",
         threshold_value |-> IF minm # NoBound THEN minm ELSE maxm,
         passed |-> passed]

\* the body of the loop of compute_metrics for one evaluator
MetricResult(name, col, thresholds) ==
    LET mean_score == Mean(col)
        has        == name \in DOMAIN thresholds
        maxm       == IF has THEN thresholds[name].max_mean ELSE NoBound
        minm       == IF has THEN thresholds[name].min_mean ELSE NoBound
        passedMax  == IF maxm # NoBound THEN FailureRateLeq(mean_score, maxm) ELSE TRUE
        passed     == IF minm # NoBound
                      THEN passedMax /\ MeanGeq(mean_score, minm)
                      ELSE passedMax
    IN  [name |-> name,
         mean |-> mean_score,
         threshold_type |-> IF minm # NoBound THEN "min"
                            ELSE IF maxm # NoBound THEN "max" ELSE "none",
         threshold_value |-> IF minm # NoBound THEN minm ELSE maxm,
         passed |-> passed]

\* a score column of a result table: cols maps evaluator name -> column of
\* cells [label, score, explanation]
ScoreCol(cols, name) == [i \in 1..Len(cols[name]) |-> cols[name][i].score]

\* variant: a threshold entry without a score column is compared as well, with
\* the mean of an empty column
RECURSIVE compute_metrics_perThreshold(_, _, _)
compute_metrics_perThreshold(cols, evs, thresholds) ==
    IF evs = <<>>
    THEN LET unmatched == DOMAIN thresholds \ DOMAIN cols
         IN  IF unmatched = {} THEN <<>>
             ELSE <<MetricResult(CHOOSE n \in unmatched : TRUE, <<>>, thresholds)>>
    ELSE LET e == Head(evs)
             rest == compute_metrics_perThreshold(cols, Tail(evs), thresholds)
         IN  IF e.name \notin DOMAIN cols THEN rest
             ELSE <<MetricResult(e.name, ScoreCol(cols, e.name), thresholds)>> \o rest

RECURSIVE compute_metrics(_, _, _)
compute_metrics(cols, evs, thresholds) ==
    IF evs = <<>> THEN <<>>
    ELSE LET e == Head(evs)
             rest == compute_metrics(cols, Tail(evs), thresholds)
         IN  IF e.name \notin DOMAIN cols THEN rest
             ELSE <<MetricResult(e.name, ScoreCol(cols, e.name), thresholds)>> \o rest

\* variant: every metric overwrites all_passed, so the last one decides
print_metric_summary_lastWins(metric_results) ==
    IF metric_results = <<>> THEN TRUE
    ELSE metric_results[Len(metric_results)].passed

\* print_metric_summary: True iff no metric has passed = False
print_metric_summary(metric_results) ==
    \A i \in 1..Len(metric_results) : metric_results[i].passed

(* ------------------------- evaluation engine -------------------------- *)
\* text of the exception a failed classify call carries
JudgeErrorText == "judge call failed"
\* explanation text the judge returns with a label
JudgeExplanation == "because"

\* variant: only the labels of the rails other than the positive one score 0.0
LabelColumn_unknownPasses(e, labels) ==
    [i \in 1..Len(labels) |->
        [label |-> labels[i],
         score |-> IF labels[i] \in e.rails \ {e.positive_label} THEN 0 ELSE 1,
         explanation |-> JudgeExplanation]]

\* the three columns written after a successful llm_classify
LabelColumn(e, labels) ==
    [i \in 1..Len(labels) |->
        [label |-> labels[i],
         score |-> IF labels[i] = e.positive_label THEN 1 ELSE 0,
         explanation |-> JudgeExplanation]]

\* variant: the except branch scores the records 1.0
ErrorColumn_scoreOne(n) ==
    [i \in 1..n |-> [label |-> "error", score |-> 1, explanation |-> JudgeErrorText]]

\* the three columns written by the except branch
ErrorColumn(n) ==
    [i \in 1..n |-> [label |-> "error", score |-> 0, explanation |-> JudgeErrorText]]

\* assignment of the columns <name>_label/_score/_explanation of result_df
SetColumns(cols, name, col) ==
    [c \in DOMAIN cols \cup {name} |-> IF c = name THEN col ELSE cols[c]]

\* variant: the except branch marks the columns of every evaluator run so far
ClassifyBody_errorAll(cols, e, n, raised, labels) ==
    IF raised
    THEN [c \in DOMAIN cols \cup {e.name} |-> ErrorColumn(n)]
    ELSE SetColumns(cols, e.name, LabelColumn(e, labels))

\* one iteration of the loop of run_evaluations over a table of n rows
ClassifyBody(cols, e, n, raised, labels) ==
    IF raised
    THEN SetColumns(cols, e.name, ErrorColumn(n))
    ELSE SetColumns(cols, e.name, LabelColumn(e, labels))

\* an empty set of evaluator columns (result_df = df.copy())
NoCols == [c \in {} |-> <<>>]

\* variant: the frame classified is a copy of result_df, with the columns of
\* the evaluators run so far
classify_input_resultDf(df, cols) == [rows |-> df, evaluator_columns |-> DOMAIN cols]

\* eval_df = df.copy(): the frame handed to llm_classify, its rows and the
\* evaluators whose columns it carries
classify_input(df, cols) == [rows |-> df, evaluator_columns |-> {}]

(* --------------------------- failure subset --------------------------- *)
\* variant: the mask is assigned instead of or-ed, so the last evaluator decides
failure_mask_lastOnly(cols, evs, i) ==
    /\ evs # <<>>
    /\ evs[Len(evs)].name \in DOMAIN cols
    /\ cols[evs[Len(evs)].name][i].score < 1

\* failure_mask: row i fails iff some evaluator with a score column scored < 1.0
failure_mask(cols, evs, i) ==
    \E k \in 1..Len(evs) :
        /\ evs[k].name \in DOMAIN cols
        /\ cols[evs[k].name][i].score < 1

\* the positions, in order, of the rows selected by eval_results[failure_mask]
RECURSIVE FailingFrom(_, _, _, _)
FailingFrom(cols, evs, i, n) ==
    IF i > n THEN <<>>
    ELSE (IF failure_mask(cols, evs, i) THEN <<i>> ELSE <<>>)
         \o FailingFrom(cols, evs, i + 1, n)

failures_df(cols, evs, n) == FailingFrom(cols, evs, 1, n)

(* ---------------------------- axial coding ---------------------------- *)
\* answers of the failure-type judge the model draws from (rails of the taxonomy)
AxialAnswers == {"hallucination", "refusal"}
AxialErrorText == "Classification error: judge call failed"

\* answers of the failure-type judge when the classifier is called on its own
AxialAnswers3 == {"hallucination", "refusal", "formatting"}

\* variant: no short circuit, the judge is called for an empty subset too
axial_classify_calls_always(failing) == 1

\* number of llm_classify calls of run_axial_coding: none for an empty subset
axial_classify_calls(failing) == IF failing = <<>> THEN 0 ELSE 1

\* columns of the frame run_axial_coding returns for a subset of a frame with
\* the given columns; the context column is only added past the short circuit
axial_columns(columns, failing) ==
    IF axial_classify_calls(failing) = 0
    THEN columns \cup {"failure_type", "failure_type_explanation"}
    ELSE columns \cup {"context", "failure_type", "failure_type_explanation"}

\* a row of the coded frame: the failing row (its index label idx and, when the
\* frame has that column, its conversation_id) with the two new columns
CodedRow(row, i, failure_type, explanation) ==
    LET coded == [idx |-> i, failure_type |-> failure_type,
                  failure_type_explanation |-> explanation]
    IN  IF "conversation_id" \in DOMAIN row
        THEN coded @@ [conversation_id |-> row.conversation_id]
        ELSE coded

\* the rows of the frame run_axial_coding returns: one coded row per failing row
run_axial_coding(failing, rows, raised, answers) ==
    [j \in 1..Len(failing) |->
        CodedRow(rows[failing[j]], failing[j],
                 IF raised THEN "other" ELSE answers[j],
                 IF raised THEN AxialErrorText ELSE JudgeExplanation)]

\* the column failure_type of a coded frame
FailureTypeCol(coded) == [j \in 1..Len(coded) |-> coded[j].failure_type]

\* number of rows of a column holding the value t
Count(col, t) == Cardinality({j \in 1..Len(col) : col[j] = t})

\* Series.value_counts(): one (value, count) entry per distinct value, in
\* descending order of count. pandas orders the counts with an argsort that is
\* not stable, so entries with equal counts come in an order the build decides:
\* the set of the orders it can return
value_counts(col) ==
    LET T == Range(col)
    IN  {[k \in 1..Cardinality(T) |-> [type |-> o[k], count |-> Count(col, o[k])]] :
            o \in {q \in [1..Cardinality(T) -> T] :
                      /\ \A a, b \in 1..Cardinality(T) : q[a] = q[b] => a = b
                      /\ \A a \in 1..Cardinality(T) - 1 :
                             Count(col, q[a]) >= Count(col, q[a + 1])}}

\* insertion of x behind every entry whose count is not smaller
RECURSIVE InsertByCount(_, _)
InsertByCount(x, s) ==
    IF s = <<>> THEN <<x>>
    ELSE IF Head(s).count >= x.count THEN <<Head(s)>> \o InsertByCount(x, Tail(s))
    ELSE <<x>> \o s

\* sorted(counts.items(), key=lambda x: x[1], reverse=True): a stable sort
RECURSIVE sorted_by_count(_)
sorted_by_count(items) ==
    IF items = <<>> THEN <<>>
    ELSE InsertByCount(items[Len(items)], sorted_by_count(SubSeq(items, 1, Len(items) - 1)))

\* get_failure_examples(coded, failure_type, n=1): idx of the first coded row of
\* that type, 0 when there is none
get_failure_examples(coded, failure_type) ==
    LET M == {j \in 1..Len(coded) : coded[j].failure_type = failure_type}
    IN  IF M = {} THEN 0 ELSE coded[CHOOSE j \in M : \A k \in M : j <= k].idx

\* summarize_failure_types and the example run_ci_evaluation shows for the top
\* type, for one order counts of value_counts
Summary(coded, counts) ==
    LET top_types == sorted_by_count(counts)
    IN  [total |-> Len(coded),
         top_types |-> top_types,
         example |-> IF top_types = <<>> THEN 0
                     ELSE get_failure_examples(coded, top_types[1].type)]

\* the summaries summarize_failure_types can return for a coded frame
summarize_failure_types(coded) ==
    IF coded = <<>>
    THEN {[total |-> 0, top_types |-> <<>>, example |-> 0]}
    ELSE {Summary(coded, counts) : counts \in value_counts(FailureTypeCol(coded))}

(* --------------------------- result assembly -------------------------- *)
\* str(row.get("conversation_id", idx)): the id as text, whatever its JSON type
StrId(cid) == [kind |-> "str", v |-> cid.v]

\* coded_failures[coded_failures.conversation_id == conv_id]: the first coded
\* row whose stored id equals the text conv_id, or 0 when there is none
FirstMatch(coded, conv_id) ==
    LET M == {j \in 1..Len(coded) : coded[j].conversation_id = conv_id}
    IN  IF M = {} THEN 0 ELSE CHOOSE j \in M : \A k \in M : j <= k

NoFailure == [failure_type |-> "", explanation |-> ""]

\* the scores list of one test case: one entry per evaluator with a score column
RECURSIVE CaseScores(_, _, _)
CaseScores(cols, evs, i) ==
    IF evs = <<>> THEN <<>>
    ELSE (IF Head(evs).name \in DOMAIN cols
          THEN <<[metric_name |-> Head(evs).name,
                  score |-> cols[Head(evs).name][i].score,
                  label |-> cols[Head(evs).name][i].label]>>
          ELSE <<>>)
         \o CaseScores(cols, Tail(evs), i)

\* str(row.get("conversation_id", idx)): without the column, the index label
\* of the row, which counts from 0
ConvId(row, i) ==
    IF "conversation_id" \in DOMAIN row THEN StrId(row.conversation_id)
    ELSE [kind |-> "str", v |-> i - 1]

\* coded_failures[coded_failures.get("conversation_id", pd.Series()) == conv_id]:
\* without the column the mask is the empty Series, which pandas cannot align
\* with the rows of a non-empty coded frame: IndexingError at the first row
\* that has a failure
test_case_lookup_raises(rows, cols, evs, coded) ==
    /\ coded # <<>>
    /\ "conversation_id" \notin DataFrameColumns(coded)
    /\ \E i \in 1..Len(rows) : failure_mask(cols, evs, i)

\* _build_test_case_results; coded = <<>> stands for None or an empty frame
_build_test_case_results(rows, cols, evs, coded) ==
    [i \in 1..Len(rows) |->
        LET conv_id == ConvId(rows[i], i)
            has_failure == failure_mask(cols, evs, i)
            m == IF has_failure /\ coded # <<>> THEN FirstMatch(coded, conv_id) ELSE 0
        IN  [conversation_id |-> conv_id,
             scores |-> CaseScores(cols, evs, i),
             has_failure_entry |-> m # 0,
             failure |-> IF m = 0 THEN NoFailure
                         ELSE [failure_type |-> coded[m].failure_type,
                               explanation |-> coded[m].failure_type_explanation]]]

(* ------------------------------ datasets ------------------------------ *)
\* JSON types a conversation_id comes in
IdKinds == {"str", "int"}

\* n records with the ids 1..n, written as text or as numbers
Records(n, kind) ==
    [i \in 1..n |-> [conversation_id |-> [kind |-> kind, v |-> i],
                     input |-> [kind |-> "str", v |-> i]]]

\* n records without conversation_id
RecordsWithoutId(n) == [i \in 1..n |-> [input |-> [kind |-> "str", v |-> i]]]

\* n records without input
RecordsWithoutInput(n) == [i \in 1..n |-> [conversation_id |-> [kind |-> "str", v |-> i]]]

\* the records with the output field an adapter adds
WithOutput(rows) ==
    [i \in 1..Len(rows) |-> rows[i] @@ [output |-> [kind |-> "str", v |-> i]]]

\* no file at the dataset path
NoDatasetFile == [exists |-> FALSE, suffix |-> ".jsonl", wellformed |-> TRUE,
                  header |-> {}, lines |-> <<>>]

\* a file of the given suffix holding the records as lines (for a CSV file
\* the header names the columns, also when there is no line)
DatasetFile(suffix, records) ==
    [exists |-> TRUE, suffix |-> suffix, wellformed |-> TRUE,
     header |-> DataFrameColumns(records), lines |-> write_jsonl(records)]

\* the files the runs find at config.dataset.path: none, one of a suffix that
\* is not supported, one that does not parse, files without a required
\* column, an empty JSONL file, a CSV file of a header alone, and well-formed
\* datasets of up to MaxRows records (one of them with a numeric id)
DatasetFiles ==
    {NoDatasetFile,
     DatasetFile(".txt", Records(1, "str")),
     [DatasetFile(".jsonl", <<>>) EXCEPT !.wellformed = FALSE],
     DatasetFile(".jsonl", RecordsWithoutId(1)),
     DatasetFile(".csv", RecordsWithoutInput(1)),
     DatasetFile(".jsonl", <<>>),
     [DatasetFile(".csv", <<>>) EXCEPT !.header = {"conversation_id", "input"}],
     DatasetFile(".jsonl", Records(1, "int"))}
    \cup {DatasetFile(".jsonl", Records(n, "str")) : n \in 1..MaxRows}

RequiredColumns == {"conversation_id", "input"}

\* the optional fields of a dataset record: a context text and a pass-through
\* field priority, written as an integer or as a float; each may be absent
OptionalFields ==
    {c @@ p : c \in {[n \in {} |-> NaN], [context |-> [kind |-> "str", v |-> 7]]},
              p \in {[n \in {} |-> NaN], [priority |-> [kind |-> "int", v |-> 2]],
                     [priority |-> [kind |-> "float", v |-> 2]]}}

\* the lists of n records, each with its own optional fields
RecordsWithOptionalFields(n) ==
    {[i \in 1..n |-> Records(n, "str")[i] @@ opt[i]] : opt \in [1..n -> OptionalFields]}

\* num_examples of DatasetConfig: Optional[int] = 20; None is written -1
NoNumExamples == -1
DefaultNumExamples == 20

\* a line of the generator response: its text (0 for none) and whether white
\* space surrounds it
ResponseLines == [text : 0..MaxLines, pad : BOOLEAN]

\* the responses: up to MaxLines lines, the text of line j, if any, being j
Responses ==
    UNION {{r \in [1..n -> ResponseLines] : \A j \in 1..n : r[j].text \in {0, j}} :
              n \in 0..MaxLines}

\* line.strip(): the text without the white space
Strip(line) == line.text

\* [line.strip() for line in raw_output.strip().split("\n") if line.strip()]
RECURSIVE NonBlankLines(_)
NonBlankLines(raw) ==
    IF raw = <<>> THEN <<>>
    ELSE IF Strip(Head(raw)) = 0 THEN NonBlankLines(Tail(raw))
    ELSE <<<<"query", Strip(Head(raw))>>>> \o NonBlankLines(Tail(raw))

\* f"Sample query {k}"
Placeholder(k) == <<"Sample query", k>>

\* queries[:num_examples], then placeholders appended while the list is short
RECURSIVE PadQueries(_, _)
PadQueries(queries, num_examples) ==
    IF Len(queries) < num_examples
    THEN PadQueries(Append(queries, Placeholder(Len(queries) + 1)), num_examples)
    ELSE queries

\* generate_synthetic_dataset, after the response raw_output arrived: the
\* frame of the records; each conversation_id is a fresh random token, named
\* here by the position of its record
generate_synthetic_dataset(dataset_config, raw_output) ==
    LET num_examples == IF dataset_config.num_examples \in {NoNumExamples, 0}
                        THEN DefaultNumExamples
                        ELSE dataset_config.num_examples
        parsed == NonBlankLines(raw_output)
        queries == PadQueries(SubSeq(parsed, 1, IF Len(parsed) < num_examples
                                                THEN Len(parsed) ELSE num_examples),
                              num_examples)
    IN  DataFrame([i \in 1..Len(queries) |->
                      [conversation_id |-> [kind |-> "str", v |-> <<"conv", i>>],
                       input |-> [kind |-> "str", v |-> queries[i]]]])

\* the lists of n records a dataset file can hold: the ids any of 1..MaxRows,
\* written as text or as numbers, each record with its own optional fields
RecordsWithAnyIds(n) ==
    {[i \in 1..n |-> [conversation_id |-> [kind |-> k, v |-> ids[i]],
                      input |-> [kind |-> "str", v |-> i]] @@ opt[i]] :
        k \in IdKinds, ids \in [1..n -> 1..MaxRows], opt \in [1..n -> OptionalFields]}

\* the example adapters (run_simple_llm_batch and the like): each input line
\* is parsed, copied with dict(row), given its output and written again
no_op_adapter(lines) ==
    [i \in 1..Len(lines) |->
        DumpRecord([output |-> [kind |-> "str", v |-> i]] @@ LoadRecord(lines[i]))]

\* variant: the required columns are not validated
load_static_dataset_noValidation(file) ==
    IF ~file.exists
    THEN [ok |-> FALSE, error |-> "FileNotFoundError: Dataset file not found", df |-> <<>>]
    ELSE IF file.suffix \notin {".csv", ".jsonl", ".json"}
    THEN [ok |-> FALSE, error |-> "ValueError: Unsupported file format", df |-> <<>>]
    ELSE IF ~file.wellformed
    THEN [ok |-> FALSE, error |-> "JSONDecodeError", df |-> <<>>]
    ELSE [ok |-> TRUE, error |-> "",
          df |-> DataFrame([i \in 1..Len(file.lines) |-> LoadRecord(file.lines[i])])]

\* load_static_dataset: [ok, error, df]; ok = FALSE is the exception raised
load_static_dataset(file) ==
    IF ~file.exists
    THEN [ok |-> FALSE, error |-> "FileNotFoundError: Dataset file not found", df |-> <<>>]
    ELSE IF file.suffix \notin {".csv", ".jsonl", ".json"}
    THEN [ok |-> FALSE, error |-> "ValueError: Unsupported file format", df |-> <<>>]
    ELSE IF ~file.wellformed
    THEN [ok |-> FALSE, error |-> "JSONDecodeError", df |-> <<>>]
    ELSE LET df == DataFrame([i \in 1..Len(file.lines) |-> LoadRecord(file.lines[i])])
             columns == IF file.suffix = ".csv" THEN file.header ELSE DataFrameColumns(df)
         IN  IF ~(RequiredColumns \subseteq columns)
             THEN [ok |-> FALSE,
                   error |-> "ValueError: Dataset is missing required columns", df |-> <<>>]
             ELSE [ok |-> TRUE, error |-> "", df |-> df]

(* ------------------------------- state -------------------------------- *)
VARIABLES
    pc,             \* position of the run
    report_to,      \* cmd_ci_run: the dashboard URL given, "" when none
    config,         \* the loaded EvalConfig
    dataset_df,     \* build_dataset(config)
    output_file,    \* what the adapter left at output_path
    eval_df,        \* the accepted adapter output rows
    evaluators,     \* the resolved evaluator list
    idx,            \* position of the loop of run_evaluations
    result_cols,    \* evaluator columns of result_df / eval_results
    twin_cols,      \* the same run, with the classify failure of twin_A suppressed
    twin_A,         \* the evaluator whose failure the twin run does not have
                    \* ("" not chosen yet, "off" no twin run is kept)
    metric_results, \* compute_metrics(...)
    all_passed,     \* print_metric_summary(...)
    coded_failures, \* run_axial_coding_sync(...), <<>> when not run
    retval,         \* what run_ci_evaluation returned or raised
    exit_status,    \* process exit code, -1 while running
    calls,          \* counters of the external calls made
    dataset_file,   \* what config.dataset.path holds when build_dataset reads it
    input_file,     \* the lines write_jsonl wrote to input_path
    raw_output,     \* the content of the response of the generation call
    coded_columns,  \* columns of the frame run_axial_coding returned
    summary         \* summarize_failure_types(coded_failures) and the example shown

vars == <<pc, report_to, config, dataset_df, output_file, eval_df, evaluators, idx,
          result_cols, twin_cols, twin_A, metric_results, all_passed,
          coded_failures, retval, exit_status, calls,
          dataset_file, input_file, raw_output, coded_columns, summary>>

\* the files and the generator response, and the results of the failure analysis
fileVars == <<dataset_file, input_file, raw_output>>
axialVars == <<coded_columns, summary>>

NoConfig == [eval_suite |-> "", custom_evaluators |-> <<>>,
             thresholds |-> [n \in {} |-> 0]]
NoFile == [kind |-> "none", rows |-> <<>>]
NoRetval == [kind |-> "none", code |-> -1, error |-> "", passed |-> FALSE,
             metrics |-> <<>>, test_cases |-> <<>>, dataset_size |-> 0]
NoSummary == [total |-> 0, top_types |-> <<>>, example |-> 0]
NoCalls == [adapter |-> 0,        \* calls of the adapter function
            adapter_raised |-> 0, \* of these, the calls that raised
            resolve |-> 0,        \* evaluator resolutions started
            classify |-> <<>>,    \* evaluator names, in the order of their classify calls
            classify_input |-> <<>>, \* the frame given to each of these calls
            raised |-> {},        \* evaluators whose classify call raised
            metrics |-> 0,        \* compute_metrics calls
            axial_fn |-> 0,       \* calls of run_axial_coding
            axial |-> 0,          \* axial-coding classify calls
            axial_raised |-> 0,   \* of these, the calls that raised
            report |-> 0,         \* posts to the dashboard
            generate |-> 0,       \* chat completion calls of the dataset generator
            report_result |-> ""] \* "posted", "warning" or "raised"

Init ==
    /\ pc = "start"
    /\ report_to = ""
    /\ config = NoConfig
    /\ dataset_df = <<>>
    /\ output_file = NoFile
    /\ eval_df = <<>>
    /\ evaluators = <<>>
    /\ idx = 0
    /\ result_cols = NoCols
    /\ twin_cols = NoCols
    /\ twin_A = "off"
    /\ metric_results = <<>>
    /\ all_passed = FALSE
    /\ coded_failures = <<>>
    /\ retval = NoRetval
    /\ exit_status = -1
    /\ calls = NoCalls
    /\ dataset_file \in DatasetFiles
    /\ input_file = <<>>
    /\ raw_output = <<>>
    /\ coded_columns = {}
    /\ summary = NoSummary

\* run_ci_evaluation returns the int code c after printing the error msg
ReturnCode(c, msg) == [NoRetval EXCEPT !.kind = "int", !.code = c, !.error = msg]
\* an exception leaves run_ci_evaluation
Raise(e) == [NoRetval EXCEPT !.kind = "raised", !.error = e]

(* ------------------------------- inputs ------------------------------- *)
\* threshold maps of the configurations of the runs
ConfigThresholds ==
    { [n \in {} |-> [max_mean |-> NoBound, min_mean |-> 50]],
      [n \in {"planning_quality"} |-> [max_mean |-> 50, min_mean |-> NoBound]],
      [n \in {"tool_use_appropriateness", UnusedMetric} |->
            [max_mean |-> NoBound, min_mean |-> 50]],
      [n \in {"brand_voice"} |-> [max_mean |-> 50, min_mean |-> 50]] }

CustomLists == {<<>>, <<"my_evaluators.BrandVoiceEvaluator">>,
                <<"missing_module.Nothing">>, <<"my_evaluators.Nothing">>}

Configs == [eval_suite : SuiteNames, custom_evaluators : CustomLists,
            thresholds : ConfigThresholds]

IdKindOf(df) ==
    IF df = <<>> \/ "conversation_id" \notin DOMAIN df[1] THEN "str"
    ELSE df[1].conversation_id.kind

\* what --report-to / EVAL_DASHBOARD_URL holds: nothing, a URL, or a host name
\* written without its scheme
ReportTargets == {"", "http://dashboard", "dashboard.local"}

\* urllib.request.Request raises ValueError for a URL without a scheme
HasScheme(url) == url = "http://dashboard"

(* ------------------------------ actions ------------------------------- *)
\* cmd_ci_run: report_to decides return_results
CmdCiRun ==
    /\ pc = "start"
    /\ \E r \in ReportTargets : report_to' = r
    /\ pc' = "load_config"
    /\ UNCHANGED <<config, dataset_df, output_file, eval_df, evaluators, idx,
                   result_cols, twin_cols, twin_A, metric_results, all_passed,
                   coded_failures, retval, exit_status, calls>>
    /\ UNCHANGED <<fileVars, axialVars>>

\* Step 1: load_eval_config either raises or yields a validated config
LoadConfig ==
    /\ pc = "load_config"
    /\ \/ /\ retval' = Raise("ConfigError")
          /\ pc' = "raised"
          /\ UNCHANGED config
       \/ /\ \E c \in Configs : config' = c
          /\ pc' = "build_dataset"
          /\ UNCHANGED retval
    /\ UNCHANGED <<report_to, dataset_df, output_file, eval_df, evaluators, idx,
                   result_cols, twin_cols, twin_A, metric_results, all_passed,
                   coded_failures, exit_status, calls>>
    /\ UNCHANGED <<fileVars, axialVars>>

\* Step 2: build_dataset (static mode) either raises or yields the records
BuildDataset ==
    /\ pc = "build_dataset"
    /\ LET built == load_static_dataset(dataset_file)
       IN  IF built.ok
           THEN /\ dataset_df' = built.df
                /\ pc' = "run_adapter"
                /\ UNCHANGED retval
           ELSE /\ retval' = Raise(built.error)
                /\ pc' = "raised"
                /\ UNCHANGED dataset_df
    /\ UNCHANGED <<report_to, config, output_file, eval_df, evaluators, idx,
                   result_cols, twin_cols, twin_A, metric_results, all_passed,
                   coded_failures, exit_status, calls>>
    /\ UNCHANGED <<fileVars, axialVars>>

\* Step 3: write the inputs, import and call the adapter; any Exception -> return 1.
\* The adapter leaves no file, a file that is not JSONL, or k records, whether it
\* returns or raises. The records written are those of the dataset, all of them,
\* all but the last, with one more, or none
AdapterRowCounts ==
    {k \in 0..MaxRows : k = 0 \/ k - Len(dataset_df) \in {-1, 0, 1}}

\* with or without the output field; one adapter copies the input alone and
\* writes no conversation_id
AdapterFiles ==
    {[kind |-> "missing", rows |-> <<>>],
     [kind |-> "malformed", rows |-> <<>>]}
    \cup {[kind |-> "rows", rows |-> write_jsonl(Records(k, IdKindOf(dataset_df)))] :
             k \in AdapterRowCounts}
    \cup {[kind |-> "rows",
           rows |-> write_jsonl(WithOutput(Records(k, IdKindOf(dataset_df))))] :
             k \in AdapterRowCounts}
    \cup {[kind |-> "rows",
           rows |-> write_jsonl(WithOutput(RecordsWithoutId(Len(dataset_df))))]}

\* variant: the except branch prints the error and does not return
RunAdapter_noReturn ==
    /\ pc = "run_adapter"
    /\ input_file' = write_jsonl(dataset_df)
    /\ \E f \in AdapterFiles : output_file' = f
    /\ \/ calls' = [calls EXCEPT !.adapter = @ + 1, !.adapter_raised = @ + 1]
       \/ calls' = [calls EXCEPT !.adapter = @ + 1]
    /\ pc' = "load_outputs"
    /\ UNCHANGED <<report_to, config, dataset_df, eval_df, evaluators, idx,
                   result_cols, twin_cols, twin_A, metric_results, all_passed,
                   coded_failures, exit_status, retval>>
    /\ UNCHANGED <<dataset_file, raw_output, axialVars>>

RunAdapter ==
    /\ pc = "run_adapter"
    /\ input_file' = write_jsonl(dataset_df)
    /\ \E f \in AdapterFiles : output_file' = f
    /\ \/ /\ calls' = [calls EXCEPT !.adapter = @ + 1, !.adapter_raised = @ + 1]
          /\ retval' = ReturnCode(1, "Adapter failed")
          /\ pc' = "returned"
       \/ /\ calls' = [calls EXCEPT !.adapter = @ + 1]
          /\ pc' = "load_outputs"
          /\ UNCHANGED retval
    /\ UNCHANGED <<report_to, config, dataset_df, eval_df, evaluators, idx,
                   result_cols, twin_cols, twin_A, metric_results, all_passed,
                   coded_failures, exit_status>>
    /\ UNCHANGED <<dataset_file, raw_output, axialVars>>

\* Step 4: the output file must exist, parse and have an output column
LoadOutputs ==
    /\ pc = "load_outputs"
    /\ IF output_file.kind = "missing"
       THEN /\ retval' = ReturnCode(1, "Adapter did not produce output file")
            /\ pc' = "returned"
            /\ UNCHANGED eval_df
       ELSE IF output_file.kind = "malformed"
       THEN /\ retval' = Raise("JSONDecodeError")
            /\ pc' = "raised"
            /\ UNCHANGED eval_df
       ELSE IF "output" \notin DataFrameColumns(read_jsonl(output_file.rows))
       THEN /\ retval' = ReturnCode(1, "Output file missing 'output' column")
            /\ pc' = "returned"
            /\ UNCHANGED eval_df
       ELSE /\ eval_df' = read_jsonl(output_file.rows)
            /\ pc' = "resolve"
            /\ UNCHANGED retval
    /\ UNCHANGED <<report_to, config, dataset_df, output_file, evaluators, idx,
                   result_cols, twin_cols, twin_A, metric_results, all_passed,
                   coded_failures, exit_status, calls>>
    /\ UNCHANGED <<fileVars, axialVars>>

\* Step 5, first half: the base suite, then the custom evaluators
ResolveEvaluators ==
    /\ pc = "resolve"
    /\ calls' = [calls EXCEPT !.resolve = @ + 1]
    /\ LET base == IF config.eval_suite # ""
                   THEN build_eval_suite(config.eval_suite)
                   ELSE [ok |-> TRUE, value |-> <<>>]
           custom == _load_custom_evaluators(config.custom_evaluators)
       IN  IF ~base.ok
           THEN /\ retval' = Raise("ValueError")
                /\ pc' = "raised"
                /\ UNCHANGED <<evaluators, idx>>
           ELSE IF ~custom.ok
           THEN /\ retval' = Raise(custom.error)
                /\ pc' = "raised"
                /\ UNCHANGED <<evaluators, idx>>
           ELSE /\ evaluators' = base.value \o custom.value
                /\ idx' = 1
                /\ pc' = "classify"
                /\ UNCHANGED retval
    /\ UNCHANGED <<report_to, config, dataset_df, output_file, eval_df,
                   result_cols, twin_cols, twin_A, metric_results, all_passed,
                   coded_failures, exit_status>>
    /\ UNCHANGED <<fileVars, axialVars>>

\* variant: a classify call that raised is tried once more
ClassifyStep_retry ==
    /\ pc = "classify"
    /\ idx <= Len(evaluators)
    /\ LET e == evaluators[idx]
           n == Len(eval_df)
       IN  \E raised \in BOOLEAN, isA \in BOOLEAN, labels \in [1..n -> JudgeLabels(e)] :
             /\ isA => (raised /\ twin_A = "")
             /\ (raised /\ ~isA) => \A i \in 1..n : labels[i] = e.positive_label
             /\ result_cols' = ClassifyBody(result_cols, e, n, raised, labels)
             /\ twin_cols' = ClassifyBody(twin_cols, e, n, raised /\ ~isA, labels)
             /\ twin_A' = IF isA THEN e.name ELSE twin_A
             /\ calls' = [calls EXCEPT !.classify = Append(@, e.name),
                                       !.classify_input =
                                           Append(@, classify_input(eval_df, result_cols)),
                                       !.raised = IF raised THEN @ \cup {e.name} ELSE @]
             /\ idx' = IF raised /\ e.name \notin calls.raised THEN idx ELSE idx + 1
    /\ UNCHANGED <<pc, report_to, config, dataset_df, output_file, eval_df, evaluators,
                   metric_results, all_passed, coded_failures, retval, exit_status>>
    /\ UNCHANGED <<fileVars, axialVars>>

\* run_evaluations, one evaluator: the classify call raises or answers a label
\* per record. The twin run gets the same answers and the same failures, but
\* for the one evaluator twin_A, whose call answers instead of raising.
ClassifyStep ==
    /\ pc = "classify"
    /\ idx <= Len(evaluators)
    /\ LET e == evaluators[idx]
           n == Len(eval_df)
       IN  \E raised \in BOOLEAN, isA \in BOOLEAN, labels \in [1..n -> JudgeLabels(e)] :
             /\ isA => (raised /\ twin_A = "")
             /\ (raised /\ ~isA) => \A i \in 1..n : labels[i] = e.positive_label
             /\ result_cols' = ClassifyBody(result_cols, e, n, raised, labels)
             /\ twin_cols' = ClassifyBody(twin_cols, e, n, raised /\ ~isA, labels)
             /\ twin_A' = IF isA THEN e.name ELSE twin_A
             /\ calls' = [calls EXCEPT !.classify = Append(@, e.name),
                                       !.classify_input =
                                           Append(@, classify_input(eval_df, result_cols)),
                                       !.raised = IF raised THEN @ \cup {e.name} ELSE @]
    /\ idx' = idx + 1
    /\ UNCHANGED <<pc, report_to, config, dataset_df, output_file, eval_df, evaluators,
                   metric_results, all_passed, coded_failures, retval, exit_status>>
    /\ UNCHANGED <<fileVars, axialVars>>

\* Step 6: compute_metrics and print_metric_summary
ComputeMetricsStep ==
    /\ pc = "classify"
    /\ idx > Len(evaluators)
    /\ metric_results' = compute_metrics(result_cols, evaluators, config.thresholds)
    /\ all_passed' = print_metric_summary(metric_results')
    /\ calls' = [calls EXCEPT !.metrics = @ + 1]
    /\ pc' = "axial"
    /\ UNCHANGED <<report_to, config, dataset_df, output_file, eval_df, evaluators, idx,
                   result_cols, twin_cols, twin_A, coded_failures, retval, exit_status>>
    /\ UNCHANGED <<fileVars, axialVars>>

\* the columns of eval_results: those of the adapter output and, standing for
\* its three columns, the name of every evaluator run
ResultColumns == DataFrameColumns(eval_df) \cup DOMAIN result_cols

\* run_axial_coding_sync(failing): the judge call, made for a non-empty subset
\* only, answers a failure type per row or raises
RunAxialCoding(failing, Answers) ==
    \E raised \in BOOLEAN, answers \in [1..Len(failing) -> Answers] :
        /\ raised => /\ axial_classify_calls(failing) > 0
                     /\ \A j \in 1..Len(failing) : answers[j] = "hallucination"
        /\ coded_failures' = run_axial_coding(failing, eval_df, raised, answers)
        /\ coded_columns' = axial_columns(ResultColumns, failing)
        /\ calls' = [calls EXCEPT !.axial_fn = @ + 1,
                                  !.axial = @ + axial_classify_calls(failing),
                                  !.axial_raised = @ + (IF raised THEN 1 ELSE 0)]

\* Step 7: the failing subset; axial coding and its summary only when it is
\* not empty
AxialCodingStep ==
    /\ pc = "axial"
    /\ LET failing == failures_df(result_cols, evaluators, Len(eval_df))
       IN  IF failing = <<>>
           THEN UNCHANGED <<coded_failures, calls, axialVars>>
           ELSE /\ RunAxialCoding(failing, AxialAnswers)
                /\ summary' \in summarize_failure_types(coded_failures')
    /\ pc' = "final"
    /\ UNCHANGED <<report_to, config, dataset_df, output_file, eval_df, evaluators, idx,
                   result_cols, twin_cols, twin_A, metric_results, all_passed,
                   retval, exit_status>>
    /\ UNCHANGED fileVars

\* Step 8: the exit code, or the EvaluationResults when return_results, unless
\* building the test cases raises
FinalResult ==
    /\ pc = "final"
    /\ IF report_to = ""
       THEN /\ retval' = ReturnCode(IF all_passed THEN 0 ELSE 1, "")
            /\ pc' = "returned"
       ELSE IF test_case_lookup_raises(eval_df, result_cols, evaluators, coded_failures)
       THEN /\ retval' = Raise("IndexingError")
            /\ pc' = "raised"
       ELSE /\ retval' = [kind |-> "results", code |-> -1, error |-> "",
                          passed |-> all_passed,
                          metrics |-> metric_results,
                          test_cases |-> _build_test_case_results(eval_df, result_cols,
                                                                  evaluators, coded_failures),
                          dataset_size |-> Len(eval_df)]
            /\ pc' = "returned"
    /\ UNCHANGED <<report_to, config, dataset_df, output_file, eval_df, evaluators, idx,
                   result_cols, twin_cols, twin_A, metric_results, all_passed,
                   coded_failures, exit_status, calls>>
    /\ UNCHANGED <<fileVars, axialVars>>

\* cmd_ci_run after run_ci_evaluation returned, then sys.exit(exit_code).
\* _report_to_dashboard builds the request outside its try block, so a URL
\* without scheme raises out of cmd_ci_run; inside the try block the post
\* succeeds or fails with a warning, and the results are mapped to 0 / 1
CmdCiRunReturn ==
    /\ pc = "returned"
    /\ IF report_to # "" /\ retval.kind = "results"
       THEN IF ~HasScheme(report_to)
            THEN /\ calls' = [calls EXCEPT !.report_result = "raised"]
                 /\ pc' = "raised"
                 /\ UNCHANGED exit_status
            ELSE /\ \E posted \in BOOLEAN :
                      calls' = [calls EXCEPT !.report = @ + 1,
                                             !.report_result = IF posted THEN "posted"
                                                               ELSE "warning"]
                 /\ exit_status' = IF retval.passed THEN 0 ELSE 1
                 /\ pc' = "exited"
       ELSE /\ exit_status' = retval.code
            /\ pc' = "exited"
            /\ UNCHANGED calls
    /\ UNCHANGED <<report_to, config, dataset_df, output_file, eval_df, evaluators, idx,
                   result_cols, twin_cols, twin_A, metric_results, all_passed,
                   coded_failures, retval>>
    /\ UNCHANGED <<fileVars, axialVars>>

\* an exception nothing catches ends the interpreter with status 1
UncaughtException ==
    /\ pc = "raised"
    /\ exit_status' = 1
    /\ pc' = "exited"
    /\ UNCHANGED <<report_to, config, dataset_df, output_file, eval_df, evaluators, idx,
                   result_cols, twin_cols, twin_A, metric_results, all_passed,
                   coded_failures, retval, calls>>
    /\ UNCHANGED <<fileVars, axialVars>>

Next ==
    \/ CmdCiRun
    \/ LoadConfig
    \/ BuildDataset
    \/ RunAdapter
    \/ LoadOutputs
    \/ ResolveEvaluators
    \/ ClassifyStep
    \/ ComputeMetricsStep
    \/ AxialCodingStep
    \/ FinalResult
    \/ CmdCiRunReturn
    \/ UncaughtException

Spec == Init /\ [][Next]_vars

(* ------------- compute_metrics as a function of its inputs ------------ *)
\* marker of a metric name without a threshold entry
Absent == [max_mean |-> NoBound, min_mean |-> NoBound]

\* the threshold map holding the entries of f that are not Absent
ThresholdMap(f) == [n \in {m \in DOMAIN f : f[m] # Absent} |-> f[n]]

\* threshold maps given to compute_metrics directly: every ThresholdConfig for the
\* first metric, one of each kind for the second, and an entry no metric matches
MetricsThresholds ==
    {ThresholdMap([n \in {"planning_quality", "tool_use_appropriateness", UnusedMetric} |->
                     IF n = "planning_quality" THEN a
                     ELSE IF n = "tool_use_appropriateness" THEN b ELSE c]) :
        a \in ThresholdConfig \cup {Absent},
        b \in {Absent, [max_mean |-> 50, min_mean |-> NoBound],
                       [max_mean |-> NoBound, min_mean |-> 50]},
        c \in {Absent, [max_mean |-> NoBound, min_mean |-> 50]}}

\* the state in which compute_metrics is called, for every score table of the
\* agent suite of up to MaxScoreRows records and every threshold map above
InitMetrics ==
    /\ pc = "classify"
    /\ report_to = ""
    /\ \E t \in MetricsThresholds :
          config = [eval_suite |-> "agent", custom_evaluators |-> <<>>, thresholds |-> t]
    /\ dataset_df = <<>>
    /\ output_file = NoFile
    /\ evaluators = build_agent_suite
    /\ idx = Len(evaluators) + 1
    /\ \E n \in 0..MaxScoreRows :
          /\ eval_df = WithOutput(Records(n, "str"))
          /\ \E l1 \in [1..n -> planning_quality.rails],
                l2 \in [1..n -> tool_use_appropriateness.rails] :
                result_cols = ClassifyBody(ClassifyBody(NoCols, planning_quality, n, FALSE, l1),
                                           tool_use_appropriateness, n, FALSE, l2)
    /\ twin_cols = result_cols
    /\ twin_A = "off"
    /\ metric_results = <<>>
    /\ all_passed = FALSE
    /\ coded_failures = <<>>
    /\ retval = NoRetval
    /\ exit_status = -1
    /\ calls = [NoCalls EXCEPT !.classify = <<"planning_quality", "tool_use_appropriateness">>,
                               !.classify_input = <<classify_input(eval_df, NoCols),
                                                    classify_input(eval_df, NoCols)>>]
    /\ dataset_file = NoDatasetFile
    /\ input_file = <<>>
    /\ raw_output = <<>>
    /\ coded_columns = {}
    /\ summary = NoSummary

NextMetrics == ComputeMetricsStep

SpecMetrics == InitMetrics /\ [][NextMetrics]_vars

\* variant: the call takes the threshold entries it uses out of the map
\* (thresholds.pop in place of thresholds.get)
ComputeMetricsAgain_pop ==
    /\ pc = "axial"
    /\ calls.metrics = 1
    /\ metric_results' = compute_metrics(result_cols, evaluators, config.thresholds)
    /\ config' = [config EXCEPT !.thresholds =
                     [n \in DOMAIN @ \ {evaluators[i].name : i \in 1..Len(evaluators)} |-> @[n]]]
    /\ calls' = [calls EXCEPT !.metrics = @ + 1]
    /\ UNCHANGED <<pc, report_to, dataset_df, output_file, eval_df, evaluators, idx,
                   result_cols, twin_cols, twin_A, all_passed, coded_failures, retval,
                   exit_status>>
    /\ UNCHANGED <<fileVars, axialVars>>

\* compute_metrics called a second time with the arguments of the first call
ComputeMetricsAgain ==
    /\ pc = "axial"
    /\ calls.metrics = 1
    /\ metric_results' = compute_metrics(result_cols, evaluators, config.thresholds)
    /\ calls' = [calls EXCEPT !.metrics = @ + 1]
    /\ UNCHANGED <<pc, report_to, config, dataset_df, output_file, eval_df, evaluators, idx,
                   result_cols, twin_cols, twin_A, all_passed, coded_failures, retval,
                   exit_status>>
    /\ UNCHANGED <<fileVars, axialVars>>

NextMetricsTwice == ComputeMetricsStep \/ ComputeMetricsAgain

SpecMetricsTwice == InitMetrics /\ [][NextMetricsTwice]_vars

(* ------------- run_evaluations as a function of its inputs ------------ *)
EvaluatorLists ==
    {<<>>, <<brand_voice>>, build_agent_suite, build_agent_suite \o <<brand_voice>>}

\* the state in which run_evaluations is called; a twin run is kept
InitEval ==
    /\ pc = "classify"
    /\ report_to = ""
    /\ \E t \in ConfigThresholds :
          config = [eval_suite |-> "agent", custom_evaluators |-> <<>>, thresholds |-> t]
    /\ dataset_df = <<>>
    /\ output_file = NoFile
    /\ \E n \in 0..MaxRows : eval_df = WithOutput(Records(n, "str"))
    /\ evaluators \in EvaluatorLists
    /\ idx = 1
    /\ result_cols = NoCols
    /\ twin_cols = NoCols
    /\ twin_A = ""
    /\ metric_results = <<>>
    /\ all_passed = FALSE
    /\ coded_failures = <<>>
    /\ retval = NoRetval
    /\ exit_status = -1
    /\ calls = NoCalls
    /\ dataset_file = NoDatasetFile
    /\ input_file = <<>>
    /\ raw_output = <<>>
    /\ coded_columns = {}
    /\ summary = NoSummary

NextEval == ClassifyStep \/ ComputeMetricsStep

SpecEval == InitEval /\ [][NextEval]_vars

(* ------------ the failure analysis as a function of its inputs -------- *)
\* run_axial_coding_sync called on the failing subset of a scored table,
\* whatever that subset is
RunAxialCodingCall ==
    /\ pc = "axial_call"
    /\ RunAxialCoding(failures_df(result_cols, evaluators, Len(eval_df)), AxialAnswers3)
    /\ pc' = "summarize"
    /\ UNCHANGED <<report_to, config, dataset_df, output_file, eval_df, evaluators, idx,
                   result_cols, twin_cols, twin_A, metric_results, all_passed,
                   retval, exit_status, fileVars, summary>>

\* summarize_failure_types called on the coded frame
SummarizeCall ==
    /\ pc = "summarize"
    /\ summary' \in summarize_failure_types(coded_failures)
    /\ pc' = "done"
    /\ UNCHANGED <<report_to, config, dataset_df, output_file, eval_df, evaluators, idx,
                   result_cols, twin_cols, twin_A, metric_results, all_passed,
                   coded_failures, retval, exit_status, calls, fileVars, coded_columns>>

\* a table scored by one evaluator, either handed to the classifier directly
\* (pc = "axial_call") or reached by the run at Step 7 (pc = "axial")
InitAxial ==
    /\ pc \in {"axial_call", "axial"}
    /\ report_to = ""
    /\ config = [eval_suite |-> "",
                 custom_evaluators |-> <<"my_evaluators.BrandVoiceEvaluator">>,
                 thresholds |-> [n \in {} |-> 0]]
    /\ dataset_df = <<>>
    /\ output_file = NoFile
    /\ evaluators = <<brand_voice>>
    /\ idx = 2
    /\ \E n \in 0..MaxFailRows :
          /\ pc = "axial" => n > 0
          /\ eval_df = WithOutput(Records(n, "str"))
          /\ \E l \in [1..n -> JudgeLabels(brand_voice)] :
                result_cols = ClassifyBody(NoCols, brand_voice, n, FALSE, l)
    /\ twin_cols = result_cols
    /\ twin_A = "off"
    /\ metric_results = compute_metrics(result_cols, evaluators, config.thresholds)
    /\ all_passed = print_metric_summary(metric_results)
    /\ coded_failures = <<>>
    /\ retval = NoRetval
    /\ exit_status = -1
    /\ calls = [NoCalls EXCEPT !.classify = <<"brand_voice">>,
                               !.classify_input = <<classify_input(eval_df, NoCols)>>,
                               !.metrics = 1]
    /\ dataset_file = NoDatasetFile
    /\ input_file = <<>>
    /\ raw_output = <<>>
    /\ coded_columns = {}
    /\ summary = NoSummary

NextAxial == RunAxialCodingCall \/ SummarizeCall \/ AxialCodingStep

SpecAxial == InitAxial /\ [][NextAxial]_vars

(* ------- the round trip of the records through the adapter files ------- *)
\* Step 3 with an adapter that copies its input and adds the output
RunNoOpAdapter ==
    /\ pc = "run_adapter"
    /\ input_file' = write_jsonl(dataset_df)
    /\ output_file' = [kind |-> "rows", rows |-> no_op_adapter(input_file')]
    /\ calls' = [calls EXCEPT !.adapter = @ + 1]
    /\ pc' = "load_outputs"
    /\ UNCHANGED <<report_to, config, dataset_df, eval_df, evaluators, idx,
                   result_cols, twin_cols, twin_A, metric_results, all_passed,
                   coded_failures, exit_status, retval>>
    /\ UNCHANGED <<dataset_file, raw_output, axialVars>>

\* the run starts at Step 2 with a JSONL dataset of 1..MaxRows records
InitRoundTrip ==
    /\ pc = "build_dataset"
    /\ report_to = ""
    /\ config = [eval_suite |-> "agent", custom_evaluators |-> <<>>,
                 thresholds |-> [n \in {} |-> 0]]
    /\ dataset_df = <<>>
    /\ output_file = NoFile
    /\ eval_df = <<>>
    /\ evaluators = <<>>
    /\ idx = 0
    /\ result_cols = NoCols
    /\ twin_cols = NoCols
    /\ twin_A = "off"
    /\ metric_results = <<>>
    /\ all_passed = FALSE
    /\ coded_failures = <<>>
    /\ retval = NoRetval
    /\ exit_status = -1
    /\ calls = NoCalls
    /\ \E n \in 1..MaxRows : \E records \in RecordsWithOptionalFields(n) :
          dataset_file = DatasetFile(".jsonl", records)
    /\ input_file = <<>>
    /\ raw_output = <<>>
    /\ coded_columns = {}
    /\ summary = NoSummary

NextRoundTrip == BuildDataset \/ RunNoOpAdapter \/ LoadOutputs

SpecRoundTrip == InitRoundTrip /\ [][NextRoundTrip]_vars

(* ------------------ build_dataset in static mode ----------------------- *)
\* the run is at Step 2 with a static JSONL or CSV dataset of 1..MaxRows
\* records
InitStatic ==
    /\ pc = "build_dataset"
    /\ report_to = ""
    /\ config = [eval_suite |-> "agent", custom_evaluators |-> <<>>,
                 thresholds |-> [n \in {} |-> 0]]
    /\ dataset_df = <<>>
    /\ output_file = NoFile
    /\ eval_df = <<>>
    /\ evaluators = <<>>
    /\ idx = 0
    /\ result_cols = NoCols
    /\ twin_cols = NoCols
    /\ twin_A = "off"
    /\ metric_results = <<>>
    /\ all_passed = FALSE
    /\ coded_failures = <<>>
    /\ retval = NoRetval
    /\ exit_status = -1
    /\ calls = NoCalls
    /\ \E n \in 1..MaxRows, suffix \in {".jsonl", ".csv"} :
          \E records \in RecordsWithAnyIds(n) :
             dataset_file = DatasetFile(suffix, records)
    /\ input_file = <<>>
    /\ raw_output = <<>>
    /\ coded_columns = {}
    /\ summary = NoSummary

NextStatic == BuildDataset

SpecStatic == InitStatic /\ [][NextStatic]_vars

(* ---------------- build_dataset in synthetic mode ---------------------- *)
\* Step 2 with dataset.mode = "synthetic": one chat completion call, whose
\* response is any of Responses, then the records made of it
BuildSyntheticDataset ==
    /\ pc = "build_dataset"
    /\ config.dataset.mode = "synthetic"
    /\ \E response \in Responses :
          /\ raw_output' = response
          /\ dataset_df' = generate_synthetic_dataset(config.dataset, response)
    /\ calls' = [calls EXCEPT !.generate = @ + 1]
    /\ pc' = "run_adapter"
    /\ UNCHANGED <<report_to, config, output_file, eval_df, evaluators, idx,
                   result_cols, twin_cols, twin_A, metric_results, all_passed,
                   coded_failures, retval, exit_status>>
    /\ UNCHANGED <<dataset_file, input_file, axialVars>>

\* the run is at Step 2 with a synthetic dataset config: num_examples is not
\* given (None), 0..MaxExamples, or the default
InitSynthetic ==
    /\ pc = "build_dataset"
    /\ report_to = ""
    /\ \E n \in {NoNumExamples, DefaultNumExamples} \cup 0..MaxExamples :
          config = [eval_suite |-> "agent", custom_evaluators |-> <<>>,
                    thresholds |-> [m \in {} |-> 0],
                    dataset |-> [mode |-> "synthetic", num_examples |-> n]]
    /\ dataset_df = <<>>
    /\ output_file = NoFile
    /\ eval_df = <<>>
    /\ evaluators = <<>>
    /\ idx = 0
    /\ result_cols = NoCols
    /\ twin_cols = NoCols
    /\ twin_A = "off"
    /\ metric_results = <<>>
    /\ all_passed = FALSE
    /\ coded_failures = <<>>
    /\ retval = NoRetval
    /\ exit_status = -1
    /\ calls = NoCalls
    /\ dataset_file = NoDatasetFile
    /\ input_file = <<>>
    /\ raw_output = <<>>
    /\ coded_columns = {}
    /\ summary = NoSummary

NextSynthetic == BuildSyntheticDataset

SpecSynthetic == InitSynthetic /\ [][NextSynthetic]_vars

(* ====================================================================== *)
(*                               properties                               *)
(* ====================================================================== *)
\* number of records of the evaluated table
NumRows == Len(eval_df)

\* number of records whose score for metric name is 1.0
NumPassing(name) == Cardinality({i \in 1..NumRows : result_cols[name][i].score = 1})

\* the metric results have been computed from result_cols
MetricsComputed == calls.metrics = 1

\* the entry of metric_results for a metric name
ResultsFor(name) == {metric_results[i] : i \in {j \in 1..Len(metric_results) :
                                                    metric_results[j].name = name}}

\* (1 - mean_score) <= m / Scale, for the column of metric name
FailureRateWithin(name, m) ==
    NumRows > 0 /\ (NumRows - NumPassing(name)) * Scale <= m * NumRows

\* mean_score >= m / Scale, for the column of metric name
MeanAtLeast(name, m) ==
    NumRows > 0 /\ NumPassing(name) * Scale >= m * NumRows

HasEntry(name) == name \in DOMAIN config.thresholds

C2_MinOnlyPassIffMeanAtLeast ==
    MetricsComputed =>
        \A r \in Range(metric_results) :
            (HasEntry(r.name) /\ config.thresholds[r.name].max_mean = NoBound
                              /\ config.thresholds[r.name].min_mean # NoBound)
            => (r.passed <=> MeanAtLeast(r.name, config.thresholds[r.name].min_mean))

\* C2 witness: mean 1/5 against min_mean = 0.2 passes although the failure
\* rate 0.8 is above 0.2
C2_Witness ==
    /\ MetricsComputed
    /\ NumRows = 5
    /\ NumPassing("planning_quality") = 1
    /\ HasEntry("planning_quality")
    /\ config.thresholds["planning_quality"] = [max_mean |-> NoBound, min_mean |-> 20]
    /\ \E r \in ResultsFor("planning_quality") : r.passed

C4_OverallIsAndOfConfiguredMetrics ==
    MetricsComputed =>
        /\ all_passed <=> \A r \in Range(metric_results) : HasEntry(r.name) => r.passed
        /\ \A r \in Range(metric_results) : ~HasEntry(r.name) => r.passed

\* C4 witness: one metric without an entry scoring 0 everywhere, the other
\* passing its threshold, overall passed; the metric without entry is reported
C4_Witness ==
    /\ MetricsComputed
    /\ all_passed
    /\ NumRows > 0
    /\ ~HasEntry("planning_quality")
    /\ NumPassing("planning_quality") = 0
    /\ HasEntry("tool_use_appropriateness")
    /\ ResultsFor("planning_quality") # {}

\* the run went through every stage and produced its final result
RunCompleted ==
    /\ MetricsComputed
    /\ retval.kind \in {"int", "results"}
    /\ retval.error = ""

\* C5: the exit code of ci-run is 0 exactly when the run completed all stages
\* and every metric passed; any threshold violation and any fatal stage
\* failure give exit code 1.
C5_ExitCodeZeroIffCompletedAndPassed ==
    pc = "exited" =>
        /\ exit_status \in {0, 1}
        /\ exit_status = 0 <=>
              (RunCompleted /\ \A r \in Range(metric_results) : r.passed)

\* C6: when the adapter raises, the run returns exit code 1 and resolves no
\* evaluator, issues no classify call, computes no metric and runs no axial coding.
C6_AdapterRaiseStopsRun ==
    calls.adapter_raised > 0 =>
        /\ pc \in {"returned", "exited"}
        /\ retval.kind = "int" /\ retval.code = 1
        /\ pc = "exited" => exit_status = 1
        /\ calls.resolve = 0 /\ evaluators = <<>>
        /\ calls.classify = <<>>
        /\ calls.metrics = 0 /\ metric_results = <<>>
        /\ calls.axial = 0 /\ coded_failures = <<>>

\* C6 witness: the adapter raised after writing a complete output file
C6_Witness ==
    /\ calls.adapter_raised = 1
    /\ pc = "exited"
    /\ output_file.kind = "rows"
    /\ Len(output_file.rows) = Len(dataset_df)
    /\ dataset_df # <<>>
    /\ "output" \in DataFrameColumns(output_file.rows)

\* the adapter returned and left no usable output
BadOutput ==
    /\ calls.adapter = 1
    /\ calls.adapter_raised = 0
    /\ pc # "load_outputs"
    /\ \/ output_file.kind \in {"missing", "malformed"}
       \/ output_file.kind = "rows" /\ "output" \notin DataFrameColumns(output_file.rows)

\* C7: when the adapter returns but its output file is missing, is not
\* well-formed JSONL or has no output field, run_ci_evaluation returns exit
\* code 1, with no classify call and no metric computed.
C7_BadOutputReturnsOne ==
    BadOutput =>
        /\ retval.kind = "int" /\ retval.code = 1
        /\ calls.classify = <<>>
        /\ calls.metrics = 0

\* names of the evaluators, in suite order
EvaluatorNames == [k \in 1..Len(evaluators) |-> evaluators[k].name]

\* C8: when evaluator A's classify call raises, the labels, scores and
\* explanations of every other evaluator B, and B's metric result, are those
\* of the run on the same records in which A's call did not raise.
C8_PartialFailureIsolation ==
    twin_A \notin {"", "off"} =>
        /\ \A name \in DOMAIN result_cols \ {twin_A} :
              /\ name \in DOMAIN twin_cols
              /\ result_cols[name] = twin_cols[name]
        /\ MetricsComputed =>
              \A r \in Range(metric_results) :
                  r.name # twin_A =>
                      r = MetricResult(r.name, ScoreCol(twin_cols, r.name), config.thresholds)

\* C8 witness: A raised between two other evaluators, one of which scored a
\* record 1.0, and A's own columns differ between the two runs
C8_Witness ==
    /\ twin_A = "tool_use_appropriateness"
    /\ MetricsComputed
    /\ Len(evaluators) = 3
    /\ NumRows = 2
    /\ result_cols[twin_A] # twin_cols[twin_A]
    /\ \E i \in 1..NumRows : result_cols["planning_quality"][i].score = 1
    /\ \E i \in 1..NumRows : result_cols["brand_voice"][i].score = 1

\* C9: an evaluator whose classify call raised has label "error", score 0.0
\* and the error text on every record, and run_evaluations still returns
\* after having called every evaluator of the list.
C9_ErrorMarksEveryRecord ==
    /\ \A name \in calls.raised :
          /\ name \in DOMAIN result_cols
          /\ Len(result_cols[name]) = NumRows
          /\ \A i \in 1..NumRows :
                result_cols[name][i] =
                    [label |-> "error", score |-> 0, explanation |-> JudgeErrorText]
    /\ MetricsComputed =>
          /\ calls.classify = EvaluatorNames
          /\ DOMAIN result_cols = Range(EvaluatorNames)

\* C9 witness: the first evaluator raised, the run went on and a later
\* evaluator scored a record 1.0
C9_Witness ==
    /\ MetricsComputed
    /\ "planning_quality" \in calls.raised
    /\ NumRows = 2
    /\ Len(evaluators) = 3
    /\ \E i \in 1..NumRows : result_cols["brand_voice"][i].score = 1

\* the positions of the rows handed to the failure classifier
ClassifiedRows == {coded_failures[j].idx : j \in 1..Len(coded_failures)}

\* C10: the rows passed to the failure classifier are exactly the evaluated
\* rows with at least one evaluator score below 1.0.
C10_FailureSubsetExact ==
    (MetricsComputed /\ pc \in {"final", "returned", "exited"}) =>
        /\ ClassifiedRows =
              {i \in 1..NumRows : \E name \in DOMAIN result_cols :
                                      result_cols[name][i].score < 1}
        /\ Len(coded_failures) = Cardinality(ClassifiedRows)
        /\ calls.axial = 0 <=> ClassifiedRows = {}

\* C10 witness: of two rows one passes everything; the other fails the first
\* evaluator and passes the last; exactly that one was classified
C10_Witness ==
    /\ pc = "final"
    /\ calls.axial = 1
    /\ NumRows = 2
    /\ Len(evaluators) = 2
    /\ ClassifiedRows = {2}
    /\ result_cols["planning_quality"][2].score = 0
    /\ result_cols["tool_use_appropriateness"][2].score = 1

\* the failing subset of the scored table
FailingRows == {i \in 1..NumRows : \E name \in DOMAIN result_cols :
                                       result_cols[name][i].score < 1}

\* C11: for an empty failing subset run_axial_coding returns an empty frame
\* that has the columns failure_type and failure_type_explanation and calls
\* the judge not at all; the run itself does not even call run_axial_coding.
C11_EmptySubsetShortCircuit ==
    FailingRows = {} =>
        /\ calls.axial = 0
        /\ coded_failures = <<>>
        /\ pc \in {"summarize", "done"} =>
              /\ calls.axial_fn = 1
              /\ {"failure_type", "failure_type_explanation"} \subseteq coded_columns
        /\ pc \in {"axial", "final"} =>
              /\ calls.axial_fn = 0
              /\ coded_columns = {}

\* C11 witness: the classifier was called on the empty subset of a table of
\* two passing records and returned the two columns
C11_Witness ==
    /\ pc = "summarize"
    /\ NumRows = 2
    /\ FailingRows = {}
    /\ calls.axial_fn = 1
    /\ calls.axial = 0
    /\ coded_columns = {"conversation_id", "input", "output", "brand_voice",
                        "failure_type", "failure_type_explanation"}

\* Step 1 loaded the config
ConfigLoaded == pc \notin {"start", "load_config"} /\ retval.error # "ConfigError"

\* the evaluators were resolved (Step 5 went on to run_evaluations)
Resolved == calls.resolve = 1 /\ idx >= 1

\* run_ci_evaluation returned its result: an exit code or the EvaluationResults
FinalResultReturned ==
    /\ retval.kind \in {"int", "results"}
    /\ retval.error = ""
    /\ retval.kind = "int" => retval.code = (IF all_passed THEN 0 ELSE 1)
    /\ retval.kind = "results" =>
          /\ retval.passed = all_passed
          /\ retval.metrics = metric_results
          /\ Len(retval.test_cases) = NumRows

\* C12: when the judge call of the axial coding raises, run_axial_coding
\* returns every failing row with failure_type "other" and the exception text
\* as explanation, and the run goes on to return its final result.
C12_AxialFailureContained ==
    calls.axial_raised > 0 =>
        /\ Len(coded_failures) = Cardinality(FailingRows)
        /\ \A j \in 1..Len(coded_failures) :
              /\ coded_failures[j].failure_type = "other"
              /\ coded_failures[j].failure_type_explanation = AxialErrorText
        /\ retval.kind # "raised"
        /\ pc \in {"returned", "exited"} => FinalResultReturned

\* C13: once the evaluators are resolved, run_ci_evaluation raises nothing
\* and ends with a complete result, one metric per evaluator and, when
\* results are returned, one test case per record, whatever classify calls
\* or axial coding failed and whatever the thresholds decided.
C13_CompleteResultAfterResolution ==
    Resolved =>
        /\ retval.kind # "raised"
        /\ pc \in {"returned", "exited"} =>
              /\ FinalResultReturned
              /\ Len(metric_results) = Len(evaluators)

\* the config names a suite build_eval_suite does not know, or a custom
\* evaluator whose module or class does not resolve
ResolutionFails ==
    /\ ConfigLoaded
    /\ \/ config.eval_suite \notin KnownSuites \cup {""}
       \/ \E i \in 1..Len(config.custom_evaluators) :
             ImportFailure(config.custom_evaluators[i]) # ""

\* C14: with an unknown suite name or a custom evaluator that does not
\* resolve, no classify call is ever made and no EvaluationResults are
\* produced, and Step 5 ends the run with the ValueError, ImportError or
\* AttributeError.
C14_ResolutionFailureAborts ==
    ResolutionFails =>
        /\ calls.classify = <<>>
        /\ calls.metrics = 0
        /\ retval.kind # "results"
        /\ calls.resolve > 0 =>
              /\ pc \in {"raised", "exited"}
              /\ retval.kind = "raised"
              /\ retval.error \in {"ValueError", "ImportError", "AttributeError"}
              /\ evaluators = <<>>

C14_Witness ==
    /\ ResolutionFails
    /\ calls.resolve > 0
    /\ config.eval_suite = "agent"
    /\ retval.error = "AttributeError"
    /\ report_to # ""
    /\ pc = "exited"

\* the loaded config names no known suite and lists no custom evaluator
NoEvaluatorConfigured ==
    /\ ConfigLoaded
    /\ config.eval_suite \notin KnownSuites
    /\ config.custom_evaluators = <<>>

\* the run ended as passed: exit code 0 or results with passed = True
EndedPassed ==
    \/ retval.kind = "int" /\ retval.code = 0
    \/ retval.kind = "results" /\ retval.passed
    \/ exit_status = 0

\* C15: a run whose config names no known suite and has no custom evaluators
\* never ends as passed, and a run ends as passed only after at least one
\* classify call was made.
C15_NoEvaluatorNeverPasses ==
    /\ NoEvaluatorConfigured => ~EndedPassed
    /\ EndedPassed => calls.classify # <<>>

\* C16: with reporting enabled and results returned by the run, the exit code
\* of ci-run is 0 for passed results and 1 otherwise whether the report was
\* posted or not; a reporting failure is a warning and never an exception.
C16_ReportingNeverChangesExitCode ==
    (report_to # "" /\ retval.kind = "results") =>
        /\ pc # "raised"
        /\ calls.report_result \in {"", "posted", "warning"}
        /\ pc = "exited" =>
              /\ exit_status = (IF retval.passed THEN 0 ELSE 1)
              /\ calls.report_result \in {"posted", "warning"}

\* the i-th record of the dataset file, as json.loads reads it
SourceRecord(i) == LoadRecord(dataset_file.lines[i])

\* the i-th row read from the output file, without the output the adapter added
RoundTripRow(i) == [c \in DOMAIN eval_df[i] \ {"output"} |-> eval_df[i][c]]

\* C17: after the dataset went through the adapter input file, a copying
\* adapter and the output file, row i has exactly the fields of record i of
\* the dataset, each with the same value of the same type.
C17_RoundTripKeepsRecords ==
    pc = "resolve" =>
        /\ Len(eval_df) = Len(dataset_file.lines)
        /\ \A i \in 1..Len(eval_df) : RoundTripRow(i) = SourceRecord(i)

\* position of the first coded row of failure type t
FirstOccurrence(t) ==
    CHOOSE j \in 1..Len(coded_failures) :
        /\ coded_failures[j].failure_type = t
        /\ \A k \in 1..(j - 1) : coded_failures[k].failure_type # t

\* C18: top_types of the summary lists each failure type of the coded rows
\* once with its exact count, in descending order of count, types of equal
\* count in the order of their first rows; the example shown is the first row
\* of the first listed type.
C18_TopTypesOrdered ==
    (pc \in {"done", "final"} /\ coded_failures # <<>>) =>
        LET col == FailureTypeCol(coded_failures)
            top == summary.top_types
        IN  /\ summary.total = Len(coded_failures)
            /\ {top[k].type : k \in 1..Len(top)} = Range(col)
            /\ Len(top) = Cardinality(Range(col))
            /\ \A k \in 1..Len(top) : top[k].count = Count(col, top[k].type)
            /\ \A a, b \in 1..Len(top) :
                  a < b =>
                     /\ top[a].count >= top[b].count
                     /\ top[a].count = top[b].count =>
                           FirstOccurrence(top[a].type) < FirstOccurrence(top[b].type)
            /\ summary.example = coded_failures[FirstOccurrence(top[1].type)].idx

\* the columns the file at the dataset path gives the frame
FileColumns ==
    IF dataset_file.suffix = ".csv" THEN dataset_file.header
    ELSE UNION {DOMAIN dataset_file.lines[i] : i \in 1..Len(dataset_file.lines)}

\* the dataset cannot be built: no file at the path, a format that is not
\* supported, or a file without conversation_id or without input
DatasetBuildFails ==
    \/ ~dataset_file.exists
    \/ dataset_file.suffix \notin {".csv", ".jsonl", ".json"}
    \/ /\ dataset_file.wellformed
       /\ ~({"conversation_id", "input"} \subseteq FileColumns)

\* C19: when the dataset cannot be built, Step 2 ends the run with the
\* exception, the adapter is never invoked and no classify call is made; the
\* adapter is invoked only with the config loaded and the dataset built.
C19_DatasetFailureIsFatal ==
    /\ DatasetBuildFails =>
          /\ calls.adapter = 0
          /\ calls.classify = <<>>
          /\ (ConfigLoaded /\ pc # "build_dataset") =>
                /\ pc \in {"raised", "exited"}
                /\ retval.kind = "raised"
                /\ retval.error \in {"FileNotFoundError: Dataset file not found",
                                      "ValueError: Unsupported file format",
                                      "ValueError: Dataset is missing required columns"}
                /\ pc = "exited" => exit_status = 1
    /\ calls.adapter > 0 =>
          /\ ConfigLoaded
          /\ ~DatasetBuildFails
          /\ dataset_file.wellformed
          /\ Len(dataset_df) = Len(dataset_file.lines)
          /\ input_file = write_jsonl(dataset_df)

C19_Witness ==
    /\ DatasetBuildFails
    /\ dataset_file.exists
    /\ dataset_file.lines # <<>>
    /\ retval.error = "ValueError: Dataset is missing required columns"
    /\ calls.adapter = 0
    /\ pc = "exited"

\* positions of the response lines that are not blank
NonBlankPositions == {j \in 1..Len(raw_output) : raw_output[j].text # 0}

\* the text of the i-th line that is not blank
NonBlankText(i) ==
    LET j == CHOOSE k \in NonBlankPositions :
                 Cardinality({m \in NonBlankPositions : m < k}) = i - 1
    IN  <<"query", raw_output[j].text>>

\* the number of records the config asks for
ExamplesAsked ==
    IF config.dataset.num_examples = NoNumExamples THEN DefaultNumExamples
    ELSE config.dataset.num_examples

\* C20: in synthetic mode build_dataset makes one generation call and
\* returns num_examples records: record i holds the i-th non-blank line of
\* the response, stripped, and beyond the lines of the response the
\* placeholder of number i.
C20_SyntheticDatasetSize ==
    pc = "run_adapter" =>
        /\ calls.generate = 1
        /\ Len(dataset_df) = ExamplesAsked
        /\ \A i \in 1..Len(dataset_df) :
              dataset_df[i].input.v =
                 (IF i <= Cardinality(NonBlankPositions) THEN NonBlankText(i)
                  ELSE Placeholder(i))

C22_DistinctConversationIds ==
    pc = "run_adapter" =>
        \A i, j \in 1..Len(dataset_df) :
            i # j => dataset_df[i].conversation_id # dataset_df[j].conversation_id

\* the coded row the failure classifier returned for the evaluated row i
CodedRowOf(i) == {coded_failures[j] : j \in {k \in 1..Len(coded_failures) :
                                                  coded_failures[k].idx = i}}

\* C23: in the results of a run in which axial coding ran, the test case of
\* record i has a failure entry exactly when record i has a score below 1.0,
\* and the entry is the failure type and explanation classified for record i.
C23_FailureEntryPerFailingRecord ==
    (retval.kind = "results" /\ calls.axial_fn > 0) =>
        \A i \in 1..Len(retval.test_cases) :
            LET tc == retval.test_cases[i]
            IN  /\ tc.has_failure_entry <=> i \in FailingRows
                /\ tc.has_failure_entry =>
                      \E c \in CodedRowOf(i) :
                          tc.failure = [failure_type |-> c.failure_type,
                                        explanation |-> c.failure_type_explanation]

\* the evaluator of the list that has the given name
EvaluatorNamed(name) ==
    evaluators[CHOOSE k \in 1..Len(evaluators) : evaluators[k].name = name]

\* C24: for every evaluator whose classify call succeeded and every record,
\* the score is 1.0 when the label is the evaluator's positive_label and 0.0
\* for any other label, also one outside the rails.
C24_ScoreIsBinaryOnPositiveLabel ==
    \A name \in DOMAIN result_cols \ calls.raised :
        \A i \in 1..Len(result_cols[name]) :
            LET cell == result_cols[name][i]
            IN  /\ cell.score \in {0, 1}
                /\ cell.score = 1 <=> cell.label = EvaluatorNamed(name).positive_label

\* C24 witness: the custom evaluator's call succeeded with one positive label
\* and one answer outside its rails, scored 1.0 and 0.0
C24_Witness ==
    /\ "brand_voice" \in DOMAIN result_cols \ calls.raised
    /\ NumRows = 2
    /\ result_cols["brand_voice"][1] =
          [label |-> "on_brand", score |-> 1, explanation |-> JudgeExplanation]
    /\ result_cols["brand_voice"][2].label \notin brand_voice.rails
    /\ result_cols["brand_voice"][2].score = 0

\* names of the evaluators the config asks for: the suite, then the custom ones
ConfiguredNames ==
    (IF config.eval_suite = "agent"
     THEN <<"planning_quality", "tool_use_appropriateness">> ELSE <<>>)
    \o [k \in 1..Len(config.custom_evaluators) |-> "brand_voice"]

C26_ClassifyInputIsAdapterOutput ==
    /\ Len(calls.classify_input) = Len(calls.classify)
    /\ \A k \in 1..Len(calls.classify_input) :
          calls.classify_input[k] = [rows |-> eval_df, evaluator_columns |-> {}]
    /\ eval_df = WithOutput(Records(NumRows, "str"))

\* C26 witness: the third evaluator was called after the first had raised
\* and the second had written its columns
C26_Witness ==
    /\ Len(calls.classify_input) = 3
    /\ NumRows = 2
    /\ "planning_quality" \in calls.raised
    /\ "tool_use_appropriateness" \notin calls.raised
    /\ DOMAIN result_cols = {"planning_quality", "tool_use_appropriateness", "brand_voice"}

\* the adapter returned and wrote an output file without any record
EmptyOutput ==
    /\ calls.adapter = 1
    /\ calls.adapter_raised = 0
    /\ pc # "load_outputs"
    /\ output_file.kind = "rows"
    /\ output_file.rows = <<>>

TwinMetricResults == compute_metrics(twin_cols, evaluators, config.thresholds)

MatchedThresholds ==
    [n \in DOMAIN config.thresholds \cap Range(EvaluatorNames) |-> config.thresholds[n]]

\* C29: a threshold entry whose name matches no evaluator that was run is
\* ignored: the metric results and the overall passed value are those computed
\* without the entry, and every metric result is that of an evaluator.
C29_UnmatchedThresholdIgnored ==
    MetricsComputed =>
        /\ pc = "axial"
        /\ \A r \in Range(metric_results) : r.name \in Range(EvaluatorNames)
        /\ Len(metric_results) = Len(evaluators)
        /\ metric_results = compute_metrics(result_cols, evaluators, MatchedThresholds)
        /\ all_passed = print_metric_summary(metric_results)
        /\ all_passed = \A k \in 1..Len(evaluators) :
                             MetricResult(evaluators[k].name,
                                          ScoreCol(result_cols, evaluators[k].name),
                                          MatchedThresholds).passed

\* C29 witness: a minimum of 0.5 is configured for a metric no evaluator has,
\* some record failed an evaluator, and the run's metrics all passed
C29_Witness ==
    /\ MetricsComputed
    /\ HasEntry(UnusedMetric)
    /\ UnusedMetric \notin Range(EvaluatorNames)
    /\ HasEntry("tool_use_appropriateness")
    /\ NumRows = 2
    /\ Len(metric_results) = 3
    /\ \E i \in 1..NumRows : result_cols["tool_use_appropriateness"][i].score = 0
    /\ all_passed

\* str(conversation_id) of the dataset records written to the adapter input file
DatasetIds == {ConvId(dataset_df[i], i) : i \in 1..Len(dataset_df)}

\* C30: when the adapter returned and its output was accepted, the per-record
\* results and dataset_size correspond one-to-one to the dataset records
\* written to the adapter input file: as many results as records, every
\* record's conversation_id among the results, and no other id evaluated.
C30_ResultsMatchDataset ==
    (retval.kind = "results" /\ calls.adapter_raised = 0) =>
        /\ input_file = write_jsonl(dataset_df)
        /\ retval.dataset_size = Len(dataset_df)
        /\ Len(retval.test_cases) = Len(dataset_df)
        /\ {retval.test_cases[j].conversation_id : j \in 1..Len(retval.test_cases)}
              = DatasetIds

====
